---- MODULE Spec2Model ----
(***************************************************************************)
(* CrosswordCreator (src/generate.py): the crossword CSP solver.           *)
(*                                                                         *)
(* Spec    : one run of solve() on a freshly constructed creator:          *)
(*           enforce_node_consistency, ac3 (one loop iteration per step),  *)
(*           backtrack (one frame event per step, explicit frame stack).   *)
(* FairSpec: the same run under weak fairness of its next step.            *)
(* SpecCalls, SpecAc3, SpecChecks: the methods called directly on a        *)
(*           creator just constructed.                                     *)
(* A word is a tuple of letters; an overlap is a pair of 0-based offsets   *)
(* or None.  Wherever the code iterates a Python set (the seed of the ac3  *)
(* queue, neighbors(x) - {y}, list(unassigned), sorted(domain)), the       *)
(* iteration order is a nondeterministic choice.                           *)
(***************************************************************************)
EXTENDS Integers, Sequences, FiniteSets, TLC

\* ------------------------------------------------------------- bounds
\* The longest slot, and the largest word list.
MaxLen == 2
MaxWords == 3
\* The largest word list of a creator whose methods are called directly.
MaxCallWords == 2
\* The largest word list of a creator whose assignment_complete is called.
MaxCheckWords == 1
\* The longest list of arcs handed to ac3.
MaxArcs == 1

\* The alphabet and the word lengths of the candidate words.
Letters == {"a", "b"}
WordLengths == {1, 2}

\* ------------------------------------------------------ puzzle model
\* crossword.variables: the slots of the puzzle.
Variables == {1, 2, 3}

\* Variable.direction: slots alternate ACROSS / DOWN.
direction(v) == IF v % 2 = 1 THEN "ACROSS" ELSE "DOWN"

\* crossword.overlaps[x, y] is None when the two slots share no cell.
None == <<"None">>

\* Every candidate word: a tuple of letters.
Vocabulary == UNION {[1 .. l -> Letters] : l \in WordLengths}

\* crossword.words: any set of at most MaxWords words.
WordSets == {W \in SUBSET Vocabulary : Cardinality(W) <= MaxWords}

\* Python's word[i]: offsets count from 0.
Char(w, i) == w[i + 1]

UnorderedPairs == {p \in Variables \X Variables : p[1] < p[2]}

\* The overlap of one unordered pair under lengths len: None, or offsets
\* inside both slots; only an ACROSS and a DOWN slot can share a cell.
PairOverlaps(len, p) ==
    {None} \cup
    (IF direction(p[1]) = direction(p[2])
       THEN {}
       ELSE {<<i, j>> : i \in 0 .. len[p[1]] - 1, j \in 0 .. len[p[2]] - 1})

\* crossword.overlaps built from a choice for every unordered pair:
\* overlaps[y, x] is overlaps[x, y] with the offsets swapped.
OverlapMap(c) ==
    [q \in Variables \X Variables |->
        IF q[1] < q[2] THEN c[<<q[1], q[2]>>]
        ELSE IF q[2] < q[1]
               THEN (IF c[<<q[2], q[1]>>] = None THEN None
                     ELSE <<c[<<q[2], q[1]>>][2], c[<<q[2], q[1]>>][1]>>)
               ELSE None]

OverlapMaps(len) ==
    {OverlapMap(c) : c \in {d \in [UnorderedPairs -> {None} \cup ((0 .. MaxLen - 1) \X (0 .. MaxLen - 1))] :
                               \A p \in UnorderedPairs : d[p] \in PairOverlaps(len, p)}}

VARIABLES
    length,       \* Variable.length of every slot
    overlaps,     \* crossword.overlaps
    words,        \* crossword.words
    domains,      \* self.domains
    pc,           \* position of solve()
    queue,        \* ac3's work deque (right end = top)
    ac3_result,   \* what ac3 returned: "none" (not yet), "True", "False"
    assignment,   \* the dict threaded through backtrack
    stack,        \* backtrack frames, root first
    solution,     \* the value a backtrack call (and in the end solve) returned
    call          \* the last direct method call: its arguments and its result

vars == <<length, overlaps, words, domains, pc, queue, ac3_result, assignment, stack, solution, call>>

\* crossword.neighbors(x)
neighbors(x) == {y \in Variables \ {x} : overlaps[x, y] # None}

\* All orders in which a finite set can be iterated.
Orders(S) == {s \in [1 .. Cardinality(S) -> S] : \A i, j \in 1 .. Cardinality(S) : i # j => s[i] # s[j]}

\* ------------------------------------------------- node consistency
\* enforce_node_consistency on domains d: every variable drops the words
\* whose length is not the variable's.
\* enforce_node_consistency that removes only the words that are too long.
NodeConsistent_KeepsShorter(d) ==
    [v \in Variables |-> d[v] \ {value \in d[v] : Len(value) > length[v]}]

\* enforce_node_consistency that stops at the first word it removes.
NodeConsistent_OnePerCall(d) ==
    [v \in Variables |->
        LET remove == {value \in d[v] : Len(value) # length[v]}
        IN IF remove = {} THEN d[v] ELSE d[v] \ {CHOOSE value \in remove : TRUE}]

NodeConsistent(d) ==
    [v \in Variables |-> d[v] \ {value \in d[v] : Len(value) # length[v]}]

\* ---------------------------------------------------------- revise
\* The words revise(x, y) puts in its `remove` set on domains d.
\* revise that keeps a word only when every word of domain(y) matches it.
ReviseRemove_AllMatch(d, x, y) ==
    IF overlaps[x, y] = None THEN {}
    ELSE LET i == overlaps[x, y][1]
             j == overlaps[x, y][2]
         IN {word_x \in d[x] : ~ \A word_y \in d[y] : Char(word_x, i) = Char(word_y, j)}

ReviseRemove(d, x, y) ==
    IF overlaps[x, y] = None THEN {}
    ELSE LET i == overlaps[x, y][1]
             j == overlaps[x, y][2]
         IN {word_x \in d[x] : ~ \E word_y \in d[y] : Char(word_x, i) = Char(word_y, j)}

\* The domains revise(x, y) leaves.
\* revise that subtracts `remove` from domain(y) and stores it as domain(x).
ReviseDomains_FromOther(d, x, y) == [d EXCEPT ![x] = d[y] \ ReviseRemove(d, x, y)]

ReviseDomains(d, x, y) == [d EXCEPT ![x] = @ \ ReviseRemove(d, x, y)]

\* The value revise(x, y) returns.
\* revise that sets `revised` when a word is kept instead of removed.
ReviseResult_SetWhenKept(d, x, y) ==
    overlaps[x, y] # None /\ d[x] \ ReviseRemove(d, x, y) # {}

ReviseResult(d, x, y) == ReviseRemove(d, x, y) # {}

\* ------------------------------------------------------------- ac3
\* The arcs (x, y) of one x, for y in an iteration order ys of neighbors(x).
ArcsOf(x, ys) == [m \in 1 .. Len(ys) |-> <<x, ys[m]>>]

\* The deques the generator (x, y) for x in xs for y in neighbors(x) can
\* build, xs a list of variables.
RECURSIVE SeedFrom(_)
SeedFrom(xs) ==
    IF xs = <<>> THEN {<<>>}
    ELSE {ArcsOf(Head(xs), ys) \o rest :
             ys \in Orders(neighbors(Head(xs))), rest \in SeedFrom(Tail(xs))}

\* The deques ac3 can build when arcs is None: crossword.variables and
\* every neighbors(x) are sets, iterated in some order.
InitialQueues == UNION {SeedFrom(xs) : xs \in Orders(Variables)}

\* The arcs (z, x) appended after revise(x, y) shrank domain(x), in an
\* iteration order zs of neighbors(x) - {y}.
\* ac3 that re-enqueues nothing after a revision.
Requeue_Nothing(x, zs) == <<>>

\* ac3 that re-enqueues the arcs (x, z) instead of (z, x).
Requeue_Reversed(x, zs) == [m \in 1 .. Len(zs) |-> <<x, zs[m]>>]

Requeue(x, zs) == [m \in 1 .. Len(zs) |-> <<zs[m], x>>]

\* ------------------------------------------- checks on assignments
EmptyAssignment == [v \in {} |-> None]

\* assignment[var] = value
Assign(a, var, value) ==
    [v \in DOMAIN a \cup {var} |-> IF v = var THEN value ELSE a[v]]

\* del assignment[var]
Unassign(a, var) == [v \in DOMAIN a \ {var} |-> a[v]]

\* assignment_complete without its count check.
assignment_complete_NoCount(a) ==
    \A variable \in DOMAIN a : variable \in Variables /\ a[variable] # None

\* assignment_complete that compares the count with one more than the
\* number of variables.
assignment_complete_OffByOne(a) ==
    /\ Cardinality(DOMAIN a) = Cardinality(Variables) + 1
    /\ \A variable \in DOMAIN a : variable \in Variables /\ a[variable] # None

assignment_complete(a) ==
    /\ Cardinality(DOMAIN a) = Cardinality(Variables)
    /\ \A variable \in DOMAIN a : variable \in Variables /\ a[variable] # None

\* consistent without its first condition (distinct values).
consistent_NoDistinct(a) ==
    /\ \A variable \in DOMAIN a : Len(a[variable]) = length[variable]
    /\ \A variable_a \in DOMAIN a :
          \A variable_b \in neighbors(variable_a) \cap DOMAIN a :
             overlaps[variable_a, variable_b] # None =>
                Char(a[variable_a], overlaps[variable_a, variable_b][1])
                   = Char(a[variable_b], overlaps[variable_a, variable_b][2])

consistent(a) ==
    /\ Cardinality({a[v] : v \in DOMAIN a}) = Cardinality(DOMAIN a)
    /\ \A variable \in DOMAIN a : Len(a[variable]) = length[variable]
    /\ \A variable_a \in DOMAIN a :
          \A variable_b \in neighbors(variable_a) \cap DOMAIN a :
             overlaps[variable_a, variable_b] # None =>
                Char(a[variable_a], overlaps[variable_a, variable_b][1])
                   = Char(a[variable_b], overlaps[variable_a, variable_b][2])

\* ------------------------------------------------------ heuristics
\* rule_out_counts[word_a] in order_domain_values(var, assignment) on
\* domains d: the disagreeing words of the unassigned neighbours.
\* rule_out_counts with the test on the neighbours inverted: it counts the
\* words of the assigned neighbours.
RuleOutCount_AssignedNeighbors(d, var, a, word_a) ==
    LET Disagree(variable_b) ==
            IF overlaps[var, variable_b] = None THEN {}
            ELSE {word_b \in d[variable_b] :
                     Char(word_a, overlaps[var, variable_b][1])
                        # Char(word_b, overlaps[var, variable_b][2])}
        RECURSIVE Sum(_)
        Sum(S) == IF S = {} THEN 0
                  ELSE LET n == CHOOSE n \in S : TRUE
                       IN Cardinality(Disagree(n)) + Sum(S \ {n})
    IN Sum({n \in neighbors(var) : n \in DOMAIN a})

RuleOutCount(d, var, a, word_a) ==
    LET unassigned_neighbors == {n \in neighbors(var) : n \notin DOMAIN a}
        Disagree(variable_b) ==
            IF overlaps[var, variable_b] = None THEN {}
            ELSE {word_b \in d[variable_b] :
                     Char(word_a, overlaps[var, variable_b][1])
                        # Char(word_b, overlaps[var, variable_b][2])}
        RECURSIVE Sum(_)
        Sum(S) == IF S = {} THEN 0
                  ELSE LET n == CHOOSE n \in S : TRUE
                       IN Cardinality(Disagree(n)) + Sum(S \ {n})
    IN Sum(unassigned_neighbors)

\* The words that can stand first when the words of S are sorted by
\* rule_out_counts: sorted() is stable, so words of equal count keep the
\* iteration order of the set, which is any order.
NextValues(d, var, a, S) ==
    {w \in S : \A u \in S : RuleOutCount(d, var, a, w) <= RuleOutCount(d, var, a, u)}

\* The lists order_domain_values(var, assignment) can return:
\* sorted(self.domains[var], key=rule_out_counts).
order_domain_values(d, var, a) ==
    LET rule_out_counts == [word_a \in d[var] |-> RuleOutCount(d, var, a, word_a)]
    IN {s \in Orders(d[var]) :
           \A m, n \in 1 .. Len(s) :
               m < n => rule_out_counts[s[m]] <= rule_out_counts[s[n]]}

\* sort_key of select_unassigned_variable, and Python's tuple order.
\* sort_key without the minus sign on the degree.
SortKey_PlusDegree(d, variable) == <<Cardinality(d[variable]), Cardinality(neighbors(variable))>>

SortKey(d, variable) == <<Cardinality(d[variable]), - Cardinality(neighbors(variable))>>
KeyLess(k1, k2) == k1[1] < k2[1] \/ (k1[1] = k2[1] /\ k1[2] < k2[2])

\* The variables select_unassigned_variable(assignment) can return: min()
\* returns the first minimal element of list(unassigned).
select_unassigned_variable(d, a) ==
    LET unassigned == Variables \ DOMAIN a
    IN {v \in unassigned : \A u \in unassigned : ~ KeyLess(SortKey(d, u), SortKey(d, v))}

\* ---------------------------------------------------- return values
ReturnNone == [kind |-> "None", value |-> EmptyAssignment]
ReturnDict(a) == [kind |-> "dict", value |-> a]
\* Python truth of a returned value: None and the empty dict are false.
Truthy(r) == r.kind = "dict" /\ DOMAIN r.value # {}

\* No direct method call was made.
NoCall ==
    [op |-> "none", x |-> 0, y |-> 0, a |-> EmptyAssignment, before |-> <<>>,
     repeated |-> FALSE, retb |-> FALSE, retv |-> 0, retl |-> <<>>]

\* ================================================== solve(), by steps
\* __init__: every domain is a copy of the word list.
Init ==
    /\ length \in [Variables -> 1 .. MaxLen]
    /\ overlaps \in OverlapMaps(length)
    /\ words \in WordSets
    /\ domains = [v \in Variables |-> words]
    /\ pc = "start"
    /\ queue = <<>>
    /\ ac3_result = "none"
    /\ assignment = EmptyAssignment
    /\ stack = <<>>
    /\ solution = ReturnNone
    /\ call = NoCall

\* What no step of solve() touches.
Puzzle == <<length, overlaps, words, call>>

\* solve, line 93: self.enforce_node_consistency()
EnforceNodeConsistency ==
    /\ pc = "start"
    /\ domains' = NodeConsistent(domains)
    /\ pc' = "ac3"
    /\ UNCHANGED <<Puzzle, queue, ac3_result, assignment, stack, solution>>

\* solve, line 94: self.ac3() is entered and seeds its queue.
Ac3Seed ==
    /\ pc = "ac3"
    /\ queue' \in InitialQueues
    /\ pc' = "ac3_loop"
    /\ UNCHANGED <<Puzzle, domains, ac3_result, assignment, stack, solution>>

\* One iteration of ac3's while loop that does not return.
\* ac3 that reads the arc on top of the queue without popping it.
Ac3Revise_KeepsArc ==
    /\ pc = "ac3_loop"
    /\ queue # <<>>
    /\ LET x == queue[Len(queue)][1]
           y == queue[Len(queue)][2]
       IN /\ ~ (ReviseResult(domains, x, y) /\ ReviseDomains(domains, x, y)[x] = {})
          /\ domains' = ReviseDomains(domains, x, y)
          /\ IF ReviseResult(domains, x, y)
               THEN \E zs \in Orders(neighbors(x) \ {y}) : queue' = queue \o Requeue(x, zs)
               ELSE queue' = queue
    /\ UNCHANGED <<Puzzle, pc, ac3_result, assignment, stack, solution>>

Ac3Revise ==
    /\ pc = "ac3_loop"
    /\ queue # <<>>
    /\ LET x == queue[Len(queue)][1]
           y == queue[Len(queue)][2]
           rest == SubSeq(queue, 1, Len(queue) - 1)
       IN /\ ~ (ReviseResult(domains, x, y) /\ ReviseDomains(domains, x, y)[x] = {})
          /\ domains' = ReviseDomains(domains, x, y)
          /\ IF ReviseResult(domains, x, y)
               THEN \E zs \in Orders(neighbors(x) \ {y}) : queue' = rest \o Requeue(x, zs)
               ELSE queue' = rest
    /\ UNCHANGED <<Puzzle, pc, ac3_result, assignment, stack, solution>>

\* The iteration in which revise empties domain(x): ac3 returns False (its
\* local queue is dropped with the rest of its frame).
\* solve discards the value and goes on to backtrack(dict()).
Ac3Fail ==
    /\ pc = "ac3_loop"
    /\ queue # <<>>
    /\ LET x == queue[Len(queue)][1]
           y == queue[Len(queue)][2]
       IN /\ ReviseResult(domains, x, y)
          /\ ReviseDomains(domains, x, y)[x] = {}
          /\ domains' = ReviseDomains(domains, x, y)
    /\ queue' = <<>>
    /\ ac3_result' = "False"
    /\ pc' = "call"
    /\ UNCHANGED <<Puzzle, assignment, stack, solution>>

\* The queue is empty: ac3 returns True; solve goes on to backtrack(dict()).
Ac3Done ==
    /\ pc = "ac3_loop"
    /\ queue = <<>>
    /\ ac3_result' = "True"
    /\ pc' = "call"
    /\ UNCHANGED <<Puzzle, domains, queue, assignment, stack, solution>>

Top == stack[Len(stack)]
Pop == SubSeq(stack, 1, Len(stack) - 1)

\* backtrack, lines 314-315: the assignment is complete and is returned.
BtComplete ==
    /\ pc = "call"
    /\ assignment_complete(assignment)
    /\ solution' = ReturnDict(assignment)
    /\ pc' = "returned"
    /\ UNCHANGED <<Puzzle, domains, queue, ac3_result, assignment, stack>>

\* backtrack, lines 318-321: a variable is selected and the loop over
\* order_domain_values(var, assignment) starts.  The frame keeps the words
\* the loop has not reached yet (all of domain(var) at first) and the
\* entries the assignment held when the call was entered.
BtSelect ==
    /\ pc = "call"
    /\ ~ assignment_complete(assignment)
    /\ \E var \in select_unassigned_variable(domains, assignment) :
          stack' = Append(stack, [var |-> var, untried |-> domains[var],
                                  entry |-> assignment])
    /\ pc' = "loop"
    /\ UNCHANGED <<Puzzle, domains, queue, ac3_result, assignment, solution>>

\* backtrack, lines 321-324: the loop takes the next value of the ordered
\* list and tentatively assigns it.
BtAssign ==
    /\ pc = "loop"
    /\ \E value \in NextValues(domains, Top.var, assignment, Top.untried) :
          /\ assignment' = Assign(assignment, Top.var, value)
          /\ stack' = [stack EXCEPT ![Len(stack)].untried = @ \ {value}]
    /\ pc' = "check"
    /\ UNCHANGED <<Puzzle, domains, queue, ac3_result, solution>>

\* backtrack, lines 327-328: the assignment is consistent, recurse.
BtRecurse ==
    /\ pc = "check"
    /\ consistent(assignment)
    /\ pc' = "call"
    /\ UNCHANGED <<Puzzle, domains, queue, ac3_result, assignment, stack, solution>>

\* backtrack that gives up at the first inconsistent value.
BtReject_GiveUp ==
    /\ pc = "check"
    /\ ~ consistent(assignment)
    /\ assignment' = Unassign(assignment, Top.var)
    /\ stack' = Pop
    /\ solution' = ReturnNone
    /\ pc' = "returned"
    /\ UNCHANGED <<Puzzle, domains, queue, ac3_result>>

\* backtrack, lines 327, 333: the assignment is inconsistent, unassign.
\* backtrack that skips `del assignment[var]` after an inconsistent value.
BtReject_KeepsEntry ==
    /\ pc = "check"
    /\ ~ consistent(assignment)
    /\ pc' = "loop"
    /\ UNCHANGED <<Puzzle, domains, queue, ac3_result, assignment, stack, solution>>

BtReject ==
    /\ pc = "check"
    /\ ~ consistent(assignment)
    /\ assignment' = Unassign(assignment, Top.var)
    /\ pc' = "loop"
    /\ UNCHANGED <<Puzzle, domains, queue, ac3_result, stack, solution>>

\* backtrack, lines 329-330: the recursive call returned a solution.
BtPropagate ==
    /\ pc = "returned"
    /\ stack # <<>>
    /\ Truthy(solution)
    /\ stack' = Pop
    /\ UNCHANGED <<Puzzle, domains, queue, ac3_result, assignment, pc, solution>>

\* backtrack, lines 329, 333: the recursive call failed, unassign.
\* backtrack that skips `del assignment[var]` after a failed recursive call.
BtUndo_KeepsEntry ==
    /\ pc = "returned"
    /\ stack # <<>>
    /\ ~ Truthy(solution)
    /\ pc' = "loop"
    /\ UNCHANGED <<Puzzle, domains, queue, ac3_result, assignment, stack, solution>>

\* backtrack that also discards the failed value from domain(var).
BtUndo_Prunes ==
    /\ pc = "returned"
    /\ stack # <<>>
    /\ ~ Truthy(solution)
    /\ domains' = [domains EXCEPT ![Top.var] = @ \ {assignment[Top.var]}]
    /\ assignment' = Unassign(assignment, Top.var)
    /\ pc' = "loop"
    /\ UNCHANGED <<Puzzle, queue, ac3_result, stack, solution>>

BtUndo ==
    /\ pc = "returned"
    /\ stack # <<>>
    /\ ~ Truthy(solution)
    /\ assignment' = Unassign(assignment, Top.var)
    /\ pc' = "loop"
    /\ UNCHANGED <<Puzzle, domains, queue, ac3_result, stack, solution>>

\* backtrack, line 336: every value was tried, return None.
BtExhaust ==
    /\ pc = "loop"
    /\ Top.untried = {}
    /\ stack' = Pop
    /\ solution' = ReturnNone
    /\ pc' = "returned"
    /\ UNCHANGED <<Puzzle, domains, queue, ac3_result, assignment>>

\* solve, line 95: the root backtrack call returned; solve returns its value.
SolveReturn ==
    /\ pc = "returned"
    /\ stack = <<>>
    /\ pc' = "done"
    /\ UNCHANGED <<Puzzle, domains, queue, ac3_result, assignment, stack, solution>>

Next ==
    \/ EnforceNodeConsistency
    \/ Ac3Seed
    \/ Ac3Revise
    \/ Ac3Fail
    \/ Ac3Done
    \/ BtComplete
    \/ BtSelect
    \/ BtAssign
    \/ BtRecurse
    \/ BtReject
    \/ BtPropagate
    \/ BtUndo
    \/ BtExhaust
    \/ SolveReturn

Spec == Init /\ [][Next]_vars

\* solve() runs to its end: the interpreter takes the next step of the
\* single thread as long as there is one.  Every slot has a length that a
\* word can have.
InitFair == Init /\ \A v \in Variables : length[v] \in WordLengths

FairSpec == InitFair /\ [][Next]_vars /\ WF_vars(Next)

\* ======================================== the methods, called directly
\* A creator is constructed and its methods are called one after another;
\* call records the last call, the domains it found and what it returned.
InitCalls == Init /\ Cardinality(words) <= MaxCallWords

\* What a direct call leaves alone.
Solver == <<length, overlaps, words, pc, queue, ac3_result, assignment, stack, solution>>

\* A behaviour is a run of enforce_node_consistency calls followed by one
\* call of another method, which ends it.
Returned == call.op \notin {"none", "enforce_node_consistency"}

\* Every letter lookup of a call on the pair (x, y) is inside its word.
InRange(d, x, y) ==
    overlaps[x, y] # None =>
        /\ \A w \in d[x] : overlaps[x, y][1] < Len(w)
        /\ \A w \in d[y] : overlaps[x, y][2] < Len(w)

\* The assignments handed to the heuristics: one for every set of assigned
\* variables (the heuristics read the keys of the assignment only).
AnyWord == <<"a">>
PartialAssignments == {[v \in S |-> AnyWord] : S \in SUBSET Variables}

\* A key that is no variable of the puzzle, and the empty word.
Outsider == 0
EmptyWord == <<>>

\* The assignments handed to assignment_complete: any keys, every value a
\* word except at most one, which is None or the empty word.
CheckedAssignments ==
    UNION {{[v \in S |-> AnyWord]} \cup
           {[v \in S |-> IF v = k THEN odd ELSE AnyWord] : k \in S, odd \in {None, EmptyWord}} :
              S \in SUBSET (Variables \cup {Outsider})}

\* creator.enforce_node_consistency()
CallEnforceNodeConsistency ==
    /\ ~ Returned
    /\ domains' = NodeConsistent(domains)
    /\ call' = [NoCall EXCEPT !.op = "enforce_node_consistency",
                              !.before = domains,
                              !.repeated = (call.op = "enforce_node_consistency")]
    /\ UNCHANGED Solver

\* creator.revise(x, y)
CallRevise ==
    /\ ~ Returned
    /\ \E x \in Variables : \E y \in Variables \ {x} :
          /\ InRange(domains, x, y)
          /\ domains' = ReviseDomains(domains, x, y)
          /\ call' = [NoCall EXCEPT !.op = "revise", !.x = x, !.y = y,
                                    !.before = domains,
                                    !.retb = ReviseResult(domains, x, y)]
    /\ UNCHANGED Solver

\* creator.select_unassigned_variable(a), some variable being unassigned.
CallSelectUnassignedVariable ==
    /\ ~ Returned
    /\ \E a \in PartialAssignments :
          /\ DOMAIN a # Variables
          /\ \E v \in select_unassigned_variable(domains, a) :
                call' = [NoCall EXCEPT !.op = "select_unassigned_variable",
                                       !.a = a, !.before = domains, !.retv = v]
    /\ UNCHANGED <<Solver, domains>>

\* creator.order_domain_values(var, a)
CallOrderDomainValues ==
    /\ ~ Returned
    /\ \E var \in Variables : \E a \in PartialAssignments :
          /\ \A n \in neighbors(var) : InRange(domains, var, n)
          /\ \E values \in order_domain_values(domains, var, a) :
                call' = [NoCall EXCEPT !.op = "order_domain_values",
                                       !.x = var, !.a = a, !.before = domains,
                                       !.retl = values]
    /\ UNCHANGED <<Solver, domains>>

\* creator.assignment_complete(a)
CallAssignmentComplete ==
    /\ ~ Returned
    /\ \E a \in CheckedAssignments :
          call' = [NoCall EXCEPT !.op = "assignment_complete", !.a = a,
                                 !.before = domains,
                                 !.retb = assignment_complete(a)]
    /\ UNCHANGED <<Solver, domains>>

NextCalls ==
    \/ CallEnforceNodeConsistency
    \/ CallRevise
    \/ CallSelectUnassignedVariable
    \/ CallOrderDomainValues

SpecCalls == InitCalls /\ [][NextCalls]_vars

\* ============================================== ac3, called directly
\* The lists of arcs a caller can hand to ac3: ordered pairs of distinct
\* variables, neighbours or not, repeated or not.
Arcs == {p \in Variables \X Variables : p[1] # p[2]}
ArcLists == UNION {[1 .. n -> Arcs] : n \in 0 .. MaxArcs}

\* ac3(arcs), lines 151-152: the queue is the given list.
Ac3SeedArcs ==
    /\ pc = "ac3"
    /\ queue' \in ArcLists
    /\ pc' = "ac3_loop"
    /\ UNCHANGED <<Puzzle, domains, ac3_result, assignment, stack, solution>>

\* enforce_node_consistency() and then ac3() or ac3(arcs), run to its
\* return: the interpreter takes the next step as long as there is one.
NextAc3 ==
    \/ EnforceNodeConsistency
    \/ Ac3Seed
    \/ Ac3SeedArcs
    \/ Ac3Revise
    \/ Ac3Fail
    \/ Ac3Done

InitAc3 == InitFair /\ Cardinality(words) <= MaxCallWords

SpecAc3 == InitAc3 /\ [][NextAc3]_vars /\ WF_vars(NextAc3)

\* ================================= assignment_complete, called directly
\* assignment_complete reads the variables of the puzzle only: it is
\* called once on a creator just constructed, with any checked assignment.
InitChecks == Init /\ Cardinality(words) <= MaxCheckWords

NextChecks == CallAssignmentComplete

SpecChecks == InitChecks /\ [][NextChecks]_vars

\* ============================================================ claims
\* The domains __init__ builds, and those after node consistency.
InitialDomains == [v \in Variables |-> words]
NodeConsistentDomains == [v \in Variables |-> {w \in words : Len(w) = length[v]}]

\* A complete valid assignment, stated from the puzzle alone: one word of
\* the word list per variable, pairwise distinct, of the slot's length,
\* agreeing at every overlap.
ValidComplete(a) ==
    /\ DOMAIN a = Variables
    /\ \A v \in Variables : a[v] \in words /\ Len(a[v]) = length[v]
    /\ \A u, v \in Variables : u # v => a[u] # a[v]
    /\ \A u, v \in Variables :
          (u # v /\ overlaps[u, v] # None) =>
             a[u][overlaps[u, v][1] + 1] = a[v][overlaps[u, v][2] + 1]

\* The exhaustive brute-force check over every variable-to-word mapping.
Solvable == \E a \in [Variables -> words] : ValidComplete(a)

\* C1: whenever solve() returns an assignment rather than None, it has
\* exactly one word for every variable, the words are pairwise distinct,
\* each has its variable's length, and neighbours agree at their overlap.
Thm_C1 ==
    (pc = "done" /\ solution.kind = "dict") => ValidComplete(solution.value)

\* A solve that returned an assignment on a puzzle with crossing slots.
Wit_C1 ==
    /\ pc = "done"
    /\ solution.kind = "dict"
    /\ \E u, v \in Variables : u # v /\ overlaps[u, v] # None
    /\ \E u, v \in Variables : u # v /\ length[u] = length[v]

\* C2: solve() returns None iff the exhaustive enumeration finds no
\* complete valid assignment; when one exists solve() returns one.
Thm_C2 ==
    pc = "done" =>
        /\ (solution.kind = "None") <=> ~ Solvable
        /\ Solvable => ValidComplete(solution.value)

\* A solve that returned None although ac3 returned True and left no
\* domain empty: the search itself found the puzzle unsolvable.
Wit_C2 ==
    /\ pc = "done"
    /\ solution.kind = "None"
    /\ ac3_result = "True"
    /\ \A v \in Variables : domains[v] # {}

\* x is arc consistent with y in domains d.
ArcConsistent(d, x, y) ==
    overlaps[x, y] # None =>
        \A w \in d[x] : \E w2 \in d[y] :
            w[overlaps[x, y][1] + 1] = w2[overlaps[x, y][2] + 1]

\* C3: if ac3() (default arcs, node-consistent domains) returns True, then
\* for every ordered pair (x, y) with an overlap every word of domain(x)
\* has a word of domain(y) with the same letter at the overlap.
Thm_C3 ==
    ac3_result = "True" =>
        \A x \in Variables : \A y \in Variables \ {x} : ArcConsistent(domains, x, y)

\* ac3 returned True after revise removed words from some domain.
Wit_C3 ==
    /\ ac3_result = "True"
    /\ \E v \in Variables : domains[v] # NodeConsistentDomains[v]
    /\ \A v \in Variables : domains[v] # {}

\* C4: if a domain is empty after enforce_node_consistency then ac3()
\* returns False; ac3 returns True only when no domain is empty.
Cex_C4 ==
    /\ (ac3_result # "none" /\ \E v \in Variables : NodeConsistentDomains[v] = {})
          => ac3_result = "False"
    /\ ac3_result = "True" => \A v \in Variables : domains[v] # {}

\* C5: if a domain is empty after enforce_node_consistency then solve()
\* returns None, whatever the other variables and whatever ac3 returned.
Thm_C5 ==
    (pc = "done" /\ \E v \in Variables : NodeConsistentDomains[v] = {})
        => solution.kind = "None"

\* solve returned on a puzzle where one slot has no word of its length,
\* another slot has some, and ac3 had returned True.
Wit_C5 ==
    /\ pc = "done"
    /\ ac3_result = "True"
    /\ \E v \in Variables : NodeConsistentDomains[v] = {}
    /\ \E v \in Variables : NodeConsistentDomains[v] # {}

\* C6: when ac3 returns False, solve returns at once and the backtracking
\* search is never started: no variable is selected, no value is assigned.
Cex_C6 ==
    ac3_result = "False" => (stack = <<>> /\ assignment = EmptyAssignment)

\* C7: after enforce_node_consistency the domain of every variable v is
\* exactly the words that were in it before the call and have v's length.
Thm_C7 ==
    call.op = "enforce_node_consistency" =>
        \A v \in Variables : domains[v] = {w \in call.before[v] : Len(w) = length[v]}

\* A call that removed a word from a domain and kept another one in it.
Wit_C7 ==
    /\ call.op = "enforce_node_consistency"
    /\ \E v \in Variables : domains[v] # call.before[v] /\ domains[v] # {}

\* C8: enforce_node_consistency is idempotent: a second call in a row
\* leaves every domain as the first call left it.
Thm_C8 ==
    (call.op = "enforce_node_consistency" /\ call.repeated) => domains = call.before

\* A second call in a row, the first of which had removed words.
Wit_C8 ==
    /\ call.op = "enforce_node_consistency"
    /\ call.repeated
    /\ \E v \in Variables : domains[v] # words /\ domains[v] # {}

\* The number of neighbours of u, from the overlaps.
Degree(u) == Cardinality({y \in Variables \ {u} : overlaps[u, y] # None})

\* C9: select_unassigned_variable returns a variable v that is not in the
\* assignment, such that no unassigned variable has a smaller domain and,
\* among the unassigned variables with a domain of v's size, none has more
\* neighbours.
Thm_C9 ==
    call.op = "select_unassigned_variable" =>
        LET v == call.retv
            unassigned == Variables \ DOMAIN call.a
        IN /\ v \in unassigned
           /\ \A u \in unassigned : Cardinality(domains[u]) >= Cardinality(domains[v])
           /\ \A u \in unassigned :
                 Cardinality(domains[u]) = Cardinality(domains[v]) => Degree(u) <= Degree(v)

\* A call that had to break a tie on domain size by the degree, passing
\* over a variable with a larger domain.
Wit_C9 ==
    /\ call.op = "select_unassigned_variable"
    /\ DOMAIN call.a = {}
    /\ \E u, t \in Variables \ {call.retv} :
          /\ Cardinality(domains[u]) = Cardinality(domains[call.retv])
          /\ Degree(u) < Degree(call.retv)
          /\ Cardinality(domains[t]) > Cardinality(domains[call.retv])

\* The rule-out count of word w of domain(var) under assignment a: the
\* pairs (n, w2), n an unassigned neighbour, w2 a word of domain(n) whose
\* letter at the overlap differs from w's.
RuledOut(var, a, w) ==
    {p \in (Variables \ DOMAIN a) \X words :
        /\ p[1] # var
        /\ overlaps[var, p[1]] # None
        /\ p[2] \in domains[p[1]]
        /\ w[overlaps[var, p[1]][1] + 1] # p[2][overlaps[var, p[1]][2] + 1]}

\* C10: order_domain_values(var, assignment) returns each word of
\* domain(var) exactly once and nothing else, in non-decreasing order of
\* rule-out count; assigned neighbours contribute nothing to the count.
Thm_C10 ==
    call.op = "order_domain_values" =>
        LET s == call.retl
        IN /\ Len(s) = Cardinality(domains[call.x])
           /\ {s[m] : m \in 1 .. Len(s)} = domains[call.x]
           /\ \A m, n \in 1 .. Len(s) :
                 m < n => Cardinality(RuledOut(call.x, call.a, s[m]))
                             <= Cardinality(RuledOut(call.x, call.a, s[n]))

\* A call that put a word ruling out less before one ruling out more,
\* for a variable with an assigned and an unassigned neighbour.
Wit_C10 ==
    /\ call.op = "order_domain_values"
    /\ Len(call.retl) >= 2
    /\ Cardinality(RuledOut(call.x, call.a, call.retl[1]))
          < Cardinality(RuledOut(call.x, call.a, call.retl[Len(call.retl)]))
    /\ \E n \in DOMAIN call.a : overlaps[call.x, n] # None /\ domains[n] # {}
    /\ \E n \in Variables \ DOMAIN call.a : overlaps[call.x, n] # None

\* C11: revise(x, y) with an overlap (ox, oy) leaves in domain(x) exactly
\* the prior words wx for which some wy of domain(y) has wx[ox] = wy[oy],
\* leaves every other domain unchanged and returns True iff a word was
\* removed; with no overlap it returns False and changes no domain.
Thm_C11 ==
    call.op = "revise" =>
        LET x == call.x
            y == call.y
        IN IF overlaps[x, y] = None
             THEN call.retb = FALSE /\ domains = call.before
             ELSE /\ domains[x] =
                        {wx \in call.before[x] :
                            \E wy \in call.before[y] :
                                wx[overlaps[x, y][1] + 1] = wy[overlaps[x, y][2] + 1]}
                  /\ \A v \in Variables \ {x} : domains[v] = call.before[v]
                  /\ call.retb <=> (domains[x] # call.before[x])

\* A call on crossing slots that removed a word and kept another one.
Wit_C11 ==
    /\ call.op = "revise"
    /\ overlaps[call.x, call.y] # None
    /\ call.retb
    /\ domains[call.x] # {}
    /\ domains[call.x] # call.before[call.x]

\* C12: across every step of a solve each variable's domain is a subset
\* of its value at the previous step and of the full word list: no
\* operation ever adds a word to a domain.
Thm_C12 ==
    /\ [](\A v \in Variables : domains[v] \subseteq words)
    /\ [][\A v \in Variables : domains'[v] \subseteq domains[v]]_vars

\* A finished solve in which node consistency removed words from a domain
\* and revise removed more of them.
Wit_C12 ==
    /\ pc = "done"
    /\ \E v \in Variables :
          /\ NodeConsistentDomains[v] # words
          /\ domains[v] # NodeConsistentDomains[v]
          /\ domains[v] # {}

\* C13: assignment_complete(assignment) returns True iff the assignment
\* has exactly one entry for each puzzle variable, no key outside the
\* puzzle's variables, and no entry that is None or an empty word.
Cex_C13 ==
    call.op = "assignment_complete" =>
        (call.retb <=>
            /\ DOMAIN call.a = Variables
            /\ \A v \in DOMAIN call.a : call.a[v] # None /\ call.a[v] # EmptyWord)

\* The lookups word_x[i], word_y[j] of a pass over the words X of x and the
\* words Y of y stay inside the words.
LookupsInside(X, Y, x, y) ==
    overlaps[x, y] # None =>
        /\ \A w \in X : overlaps[x, y][1] < Len(w)
        /\ \A w \in Y : overlaps[x, y][2] < Len(w)

\* C14: solve() never ends in a fault, it ends only by returning an
\* assignment or None: no step before the return is stuck,
\* select_unassigned_variable is never invoked with every variable
\* assigned, and every letter lookup of revise, order_domain_values and
\* consistent uses an offset smaller than the word's length.
Thm_C14 ==
    /\ pc = "done" => solution.kind \in {"dict", "None"}
    /\ pc # "done" => ENABLED Next
    /\ (pc = "ac3_loop" /\ queue # <<>>) =>
          LET x == queue[Len(queue)][1]
              y == queue[Len(queue)][2]
          IN LookupsInside(domains[x], domains[y], x, y)
    /\ (pc = "call" /\ ~ assignment_complete(assignment)) =>
          /\ Variables \ DOMAIN assignment # {}
          /\ \A var \in select_unassigned_variable(domains, assignment) :
                \A n \in Variables \ (DOMAIN assignment \cup {var}) :
                    LookupsInside(domains[var], domains[n], var, n)
    /\ (pc = "check"
          /\ Cardinality({assignment[v] : v \in DOMAIN assignment}) = Cardinality(DOMAIN assignment)
          /\ \A v \in DOMAIN assignment : Len(assignment[v]) = length[v]) =>
          \A u \in DOMAIN assignment : \A v \in DOMAIN assignment \ {u} :
              LookupsInside({assignment[u]}, {assignment[v]}, u, v)

\* backtrack is entered with a single variable left to assign, on a puzzle
\* with an overlap at the last cell of a slot of length two or more.
Wit_C14 ==
    /\ pc = "call"
    /\ Cardinality(DOMAIN assignment) = Cardinality(Variables) - 1
    /\ \E u \in Variables : \E v \in Variables \ {u} :
          /\ overlaps[u, v] # None
          /\ length[u] >= 2
          /\ overlaps[u, v][1] = length[u] - 1

\* C15: whenever a call backtrack(assignment) returns None the assignment
\* holds exactly the entries it held when that call was entered, and each
\* time a value is tried for the selected variable the assignment holds
\* exactly the entry-time entries plus that single (var, value) entry.
Thm_C15 ==
    /\ [](pc = "loop" => assignment = Top.entry)
    /\ [](pc = "check" =>
            /\ Top.var \notin DOMAIN Top.entry
            /\ DOMAIN assignment = DOMAIN Top.entry \cup {Top.var}
            /\ \A v \in DOMAIN Top.entry : assignment[v] = Top.entry[v]
            /\ assignment[Top.var] \in domains[Top.var] \ Top.untried)
    /\ [][(pc = "loop" /\ pc' = "returned") =>
             (solution'.kind = "None" /\ assignment' = Top.entry)]_vars

\* A call below the root returned None after a deeper call had failed
\* and a sibling value had been rejected.
Wit_C15 ==
    /\ pc = "returned"
    /\ solution.kind = "None"
    /\ Len(stack) = 1
    /\ Cardinality(domains[Top.var] \ Top.untried) >= 2
    /\ \E v \in Variables \ DOMAIN assignment :
          v # Top.var /\ Cardinality(domains[v]) >= 2

\* C16: from the moment solve enters backtrack until solve returns no
\* domain changes; the tests assignment_complete (at the entry of a call)
\* and consistent (after a tentative assignment) leave the assignment
\* they are given unchanged.
Thm_C16 ==
    [][/\ pc \in {"call", "loop", "check", "returned"} => domains' = domains
       /\ pc = "call" => assignment' = assignment
       /\ (pc = "check" /\ pc' = "call") => assignment' = assignment]_vars

\* A search that found no solution on domains that ac3 had pruned and
\* that still offered a choice of values.
Wit_C16 ==
    /\ pc = "done"
    /\ ac3_result = "True"
    /\ domains # NodeConsistentDomains
    /\ \E v \in Variables : Cardinality(domains[v]) >= 2
    /\ solution.kind = "None"

\* The arcs waiting in ac3's queue.
Queued == {queue[m] : m \in 1 .. Len(queue)}

\* C17: at every point of ac3's work loop (between two pops) every
\* ordered neighbour arc (a, b) that is not in the queue is arc
\* consistent; in particular the arc (y, x), not re-enqueued after
\* revise(x, y) shrank domain(x), stays consistent.
Thm_C17 ==
    pc = "ac3_loop" =>
        \A a \in Variables : \A b \in Variables \ {a} :
            (overlaps[a, b] # None /\ <<a, b>> \notin Queued) =>
                ArcConsistent(domains, a, b)

\* Between two pops: some domain(x) has been shrunk, arcs are still
\* waiting, and an arc (y, x) into the shrunk domain is not among them.
Wit_C17 ==
    /\ pc = "ac3_loop"
    /\ queue # <<>>
    /\ \E x \in Variables : \E y \in Variables \ {x} :
          /\ overlaps[y, x] # None
          /\ domains[x] # NodeConsistentDomains[x]
          /\ domains[x] # {}
          /\ domains[y] # {}
          /\ <<y, x>> \notin Queued

\* The number of words in all domains.
TotalWords == Cardinality({p \in Variables \X words : p[2] \in domains[p[1]]})

\* C18: ac3 terminates on every puzzle and every initial arc list: once
\* entered it returns True or False; the queue grows, or keeps its length,
\* only in an iteration whose revise removed a word from a domain.
Thm_C18 ==
    /\ <>(ac3_result # "none")
    /\ [][(pc = "ac3_loop" /\ pc' = "ac3_loop" /\ Len(queue') >= Len(queue))
             => TotalWords' < TotalWords]_vars

\* ac3 returned True after revise had removed words from two domains and
\* left words in every domain.
Wit_C18 ==
    /\ ac3_result = "True"
    /\ Cardinality({v \in Variables : domains[v] # NodeConsistentDomains[v]}) >= 2
    /\ \A v \in Variables : domains[v] # {}

\* C19: in the search solve starts from the empty assignment, the call at
\* recursion depth d (root = 0) is entered with exactly d entries, a step
\* adds at most one entry, the depth never exceeds the number of
\* variables, and the search terminates: solve returns.
Thm_C19 ==
    /\ [](pc = "call" => Cardinality(DOMAIN assignment) = Len(stack))
    /\ [](Len(stack) <= Cardinality(Variables))
    /\ [][Cardinality(DOMAIN assignment') <= Cardinality(DOMAIN assignment) + 1]_vars
    /\ <>(pc = "done")

\* The call at the greatest depth is entered after a call at that depth
\* had been left: the root frame is at its second value or later.
Wit_C19 ==
    /\ pc = "call"
    /\ Len(stack) = Cardinality(Variables)
    /\ Cardinality(domains[stack[1].var] \ stack[1].untried) >= 2

\* C20: neither enforce_node_consistency nor ac3, whether it returns True
\* or stops early with False, removes from a domain a word that the
\* variable takes in some valid complete assignment: every valid complete
\* assignment over the word list keeps each of its words in the domains,
\* at every step up to the start of backtracking.
Thm_C20 ==
    (pc \in {"start", "ac3", "ac3_loop"} \/ (pc = "call" /\ stack = <<>>)) =>
        \A a \in [Variables -> words] :
            ValidComplete(a) => \A v \in Variables : a[v] \in domains[v]

\* backtrack is entered on a solvable puzzle after node consistency and
\* ac3 had both removed words.
Wit_C20 ==
    /\ pc = "call"
    /\ stack = <<>>
    /\ Solvable
    /\ NodeConsistentDomains # InitialDomains
    /\ domains # NodeConsistentDomains

====
